---------------------------- MODULE Spec2Model ----------------------------
(***************************************************************************)
(* A model of easylogger's CustomTimedRotatingFileHandler                 *)
(* (src/easylogger/handlers.py): the rollover policy (compute_rollover),   *)
(* the file-name codec (calculate_filename, extMatch), retention pruning   *)
(* (get_files_to_delete) and the handler life cycle (__init__, emit,       *)
(* doRollover, close).                                                     *)
(*                                                                         *)
(* Strings are sequences of one-character strings, so that slicing,       *)
(* comparison and matching are computed as Python computes them.  Instants *)
(* are epoch seconds.  What the handler inherits from                      *)
(* logging.handlers.TimedRotatingFileHandler (CPython 3.11) is modelled at *)
(* the call or the class statement that pulls it in.                       *)
(***************************************************************************)
EXTENDS Integers, Sequences, FiniteSets, TLC

VARIABLES
    args,       \* the constructor's arguments: [filename, when, interval, backup_cnt, utc]
    now,        \* wall clock, time.time() truncated to seconds
    ticks,      \* how often the clock has advanced (bounds the run)
    phase,      \* "new" | "open" | "failed" | "computed" | "hung"
    h,          \* the handler object (self)
    dir,        \* the paths of the files that exist (os.listdir(dir_name), joined)
    faults,     \* what the file system refuses: [unremovable, readonly]
    dir0,       \* history: the directory as the handler found it
    rollovers,  \* history: how many times doRollover has run
    res,        \* history: what the last operation did
    logs,       \* the Log objects, in the order of their construction
    proc        \* the process: [is_debugging, argv_level, excepthook]

vars == <<args, now, ticks, phase, h, dir, faults, dir0, rollovers, res, logs, proc>>

(***************************************************************************)
(* Bounds of the model.                                                    *)
(***************************************************************************)
MaxTicks == 2
MaxDays == 3
MaxInterval == 2
MaxBackup == 3
MaxOld == 4
MaxRollovers == 3
MaxLogs == 3

(***************************************************************************)
(* Characters and strings.                                                 *)
(***************************************************************************)
\* The characters the model uses, in ASCII order.
Alphabet ==
    << "\n", "-", ".", "/", "0", "1", "2", "3", "4", "5", "6", "7", "8", "9",
       "A", "B", "C", "D", "E", "F", "G", "H", "I", "J", "K", "L", "M",
       "N", "O", "P", "Q", "R", "S", "T", "U", "V", "W", "X", "Y", "Z", "_",
       "a", "b", "c", "d", "e", "f", "g", "h", "i", "j", "k", "l", "m",
       "n", "o", "p", "q", "r", "s", "t", "u", "v", "w", "x", "y", "z" >>

Chars == {Alphabet[i] : i \in 1..Len(Alphabet)}

\* ord(c), up to an order-preserving renumbering
Ord == [c \in Chars |-> CHOOSE i \in 1..Len(Alphabet) : Alphabet[i] = c]

Digits == {"0", "1", "2", "3", "4", "5", "6", "7", "8", "9"}

Letters == {c \in Chars : Ord[c] >= Ord["A"] /\ c # "_"}

\* str.upper() on one character: 'a'..'z' are 27 places after 'A'..'Z'
UpperChar(c) == IF Ord[c] >= Ord["a"] THEN Alphabet[Ord[c] - 27] ELSE c

\* str.upper()
Upper(s) == [i \in 1..Len(s) |-> UpperChar(s[i])]

\* Python's None for string- and tuple-valued attributes, and for int-valued ones
None == << >>

NoInt == -1

\* s[a:b] for 0 <= a, 0 <= b (Python slice, zero-based, end exclusive)
Slice(s, a, b) ==
    LET lo == IF a > Len(s) THEN Len(s) ELSE a
        hi == IF b > Len(s) THEN Len(s) ELSE b
    IN  IF hi <= lo THEN << >> ELSE SubSeq(s, lo + 1, hi)

\* s[-n:] : the last n characters; s[-0:] is s[0:], the whole string
LastN(s, n) ==
    IF n = 0 \/ n >= Len(s) THEN s ELSE SubSeq(s, Len(s) - n + 1, Len(s))

\* s.startswith(p)
StartsWith(s, p) == Slice(s, 0, Len(p)) = p

\* s < t for Python strings (lexicographic by code point)
RECURSIVE StrLess(_, _)
StrLess(s, t) ==
    IF t = << >> THEN FALSE
    ELSE IF s = << >> THEN TRUE
    ELSE IF s[1] # t[1] THEN Ord[s[1]] < Ord[t[1]]
    ELSE StrLess(Tail(s), Tail(t))

\* str(d) for one decimal digit
DigitChar(d) == Alphabet[Ord["0"] + d]

\* int(c) for one decimal digit character
DigitVal(c) == Ord[c] - Ord["0"]

\* "%02d" % n and "%04d" % n
Pad2(n) == << DigitChar((n \div 10) % 10), DigitChar(n % 10) >>

Pad4(n) == Pad2(n \div 100) \o Pad2(n % 100)

(***************************************************************************)
(* Calendar: time.gmtime, time.localtime, time.strftime.                   *)
(***************************************************************************)
_MIDNIGHT == 24 * 60 * 60

\* The host's time zone, as time.localtime sees it: US Eastern in 2024.
\* Daylight saving time begins 2024-03-10 07:00:00 UTC and ends
\* 2024-11-03 06:00:00 UTC.
StdOffset == 0 - 5 * 3600

DstOffset == 0 - 4 * 3600

DstBegin == 19792 * _MIDNIGHT + 7 * 3600

DstEnd == 20030 * _MIDNIGHT + 6 * 3600

IsDst(t) == DstBegin <= t /\ t < DstEnd

\* Civil date of a day number (days since 1970-01-01), proleptic Gregorian.
CivilFromDays(days) ==
    LET Ymd(y, m, d) == [year |-> y + (IF m <= 2 THEN 1 ELSE 0), mon |-> m, mday |-> d]
        FromMp(y, doy, mp) ==
            Ymd(y, IF mp < 10 THEN mp + 3 ELSE mp - 9, doy - (153 * mp + 2) \div 5 + 1)
        FromDoy(y, doy) == FromMp(y, doy, (5 * doy + 2) \div 153)
        FromYoe(era, doe, yoe) ==
            FromDoy(yoe + era * 400, doe - (365 * yoe + yoe \div 4 - yoe \div 100))
        FromDoe(era, doe) ==
            FromYoe(era, doe,
                    (doe - doe \div 1460 + doe \div 36524 - doe \div 146096) \div 365)
        FromZ(z) == FromDoe(z \div 146097, z % 146097)
    IN  FromZ(days + 719468)

\* struct_time of a wall-clock reading; tm_wday has Monday = 0,
\* and 1970-01-01 was a Thursday.
StructTime(wall, isdst) ==
    LET Fields(c, days, sod) ==
            [tm_year |-> c.year, tm_mon |-> c.mon, tm_mday |-> c.mday,
             tm_hour |-> sod \div 3600, tm_min |-> (sod \div 60) % 60,
             tm_sec |-> sod % 60, tm_wday |-> (days + 3) % 7,
             tm_isdst |-> isdst]
    IN  Fields(CivilFromDays(wall \div _MIDNIGHT), wall \div _MIDNIGHT, wall % _MIDNIGHT)

gmtime(t) == StructTime(t, 0)

localtime(t) ==
    IF IsDst(t) THEN StructTime(t + DstOffset, 1) ELSE StructTime(t + StdOffset, 0)

\* One directive or literal character of a strftime format.
Directive(tok, tt) ==
    CASE tok = "%Y" -> Pad4(tt.tm_year)
      [] tok = "%m" -> Pad2(tt.tm_mon)
      [] tok = "%d" -> Pad2(tt.tm_mday)
      [] tok = "%H" -> Pad2(tt.tm_hour)
      [] tok = "%M" -> Pad2(tt.tm_min)
      [] tok = "%S" -> Pad2(tt.tm_sec)
      [] OTHER -> << tok >>

\* time.strftime(fmt, tt), fmt a sequence of directives and literals
RECURSIVE strftime(_, _)
strftime(fmt, tt) ==
    IF fmt = << >> THEN << >>
    ELSE Directive(Head(fmt), tt) \o strftime(Tail(fmt), tt)

(***************************************************************************)
(* The handler.  Paths: every file lives in the one directory             *)
(* os.path.split(origFileName)[0]; a name below is the part after it.      *)
(***************************************************************************)
\* filename and postfix the handler is constructed with: "<dir>/svc", ".log"
BaseName == << "s", "v", "c" >>

Postfix == << ".", "l", "o", "g" >>

\* when.startswith('W') and when == 'MIDNIGHT'
IsWeekly(when) == StartsWith(when, << "W" >>)

IsMidnight(when) == when = << "M", "I", "D", "N", "I", "G", "H", "T" >>

\* The unit table of __init__: base interval, strftime format, and the core
\* of the matcher ("d" stands for \d, anything else for itself).
UnitTable(when) ==
    CASE when = << "S" >> ->
           [known |-> TRUE, interval |-> 1,
            suffix |-> << "%Y", "-", "%m", "-", "%d", "_", "%H", "-", "%M", "-", "%S" >>,
            core |-> << "d", "d", "d", "d", "-", "d", "d", "-", "d", "d", "_",
                        "d", "d", "-", "d", "d", "-", "d", "d" >>]
      [] when = << "M" >> ->
           [known |-> TRUE, interval |-> 60,
            suffix |-> << "%Y", "-", "%m", "-", "%d", "_", "%H", "-", "%M" >>,
            core |-> << "d", "d", "d", "d", "-", "d", "d", "-", "d", "d", "_",
                        "d", "d", "-", "d", "d" >>]
      [] when = << "H" >> ->
           [known |-> TRUE, interval |-> 60 * 60,
            suffix |-> << "%Y", "-", "%m", "-", "%d", "_", "%H" >>,
            core |-> << "d", "d", "d", "d", "-", "d", "d", "-", "d", "d", "_",
                        "d", "d" >>]
      [] when = << "D" >> \/ IsMidnight(when) ->
           [known |-> TRUE, interval |-> 60 * 60 * 24,
            suffix |-> << "%Y", "-", "%m", "-", "%d" >>,
            core |-> << "d", "d", "d", "d", "-", "d", "d", "-", "d", "d" >>]
      [] IsWeekly(when) ->
           [known |-> TRUE, interval |-> 60 * 60 * 24 * 7,
            suffix |-> << "%Y", "-", "%m", "-", "%d" >>,
            core |-> << "d", "d", "d", "d", "-", "d", "d", "-", "d", "d" >>]
      [] OTHER ->
           [known |-> FALSE, interval |-> 0, suffix |-> << >>, core |-> << >>]

\* UnitError with the upper end of the weekday range set too high (mutant)
UnitError_day_range(when) ==
    IF ~UnitTable(when).known THEN "ValueError: Invalid rollover interval specified"
    ELSE IF ~IsWeekly(when) THEN ""
    ELSE IF Len(when) # 2 THEN "ValueError: You must specify a day for weekly rollover"
    ELSE IF Ord[when[2]] < Ord["0"] \/ Ord[when[2]] > Ord["9"]
         THEN "ValueError: Invalid day specified for weekly rollover"
    ELSE ""

\* The checks of the weekly branch: "" when the unit is accepted, else
\* the exception __init__ raises.
UnitError(when) ==
    IF ~UnitTable(when).known THEN "ValueError: Invalid rollover interval specified"
    ELSE IF ~IsWeekly(when) THEN ""
    ELSE IF Len(when) # 2 THEN "ValueError: You must specify a day for weekly rollover"
    ELSE IF Ord[when[2]] < Ord["0"] \/ Ord[when[2]] > Ord["6"]
         THEN "ValueError: Invalid day specified for weekly rollover"
    ELSE ""

\* self.extMatch after construction.  TimedRotatingFileHandler.__init__
\* replaces the pattern set above it by its own, compiled:
\* ^<core>(\.\w+)?$ (ext: the optional extension); re.compile of a compiled
\* pattern returns it unchanged.
ExtMatch(when) == [core |-> UnitTable(when).core, ext |-> TRUE]

\* The characters \w matches under re.ASCII
WordChars == Digits \cup Letters \cup {"_"}

\* FullMatch without the anchor at the end (mutant)
FullMatch_unanchored(re, s) ==
    LET n == Len(re.core)
    IN  /\ Len(s) >= n
        /\ \A i \in 1..n :
              IF re.core[i] = "d" THEN s[i] \in Digits ELSE s[i] = re.core[i]

\* re.fullmatch of ^<core>(\.\w+)?
FullMatch(re, s) ==
    LET n    == Len(re.core)
        rest == Slice(s, n, Len(s))
    IN  /\ Len(s) >= n
        /\ \A i \in 1..n :
              IF re.core[i] = "d" THEN s[i] \in Digits ELSE s[i] = re.core[i]
        /\ \/ rest = << >>
           \/ /\ re.ext
              /\ Len(rest) >= 2
              /\ rest[1] = "."
              /\ \A i \in 2..Len(rest) : rest[i] \in WordChars

\* self.extMatch.match(s): $ also matches before one trailing newline
match(re, s) ==
    \/ FullMatch(re, s)
    \/ /\ s # << >>
       /\ s[Len(s)] = "\n"
       /\ FullMatch(re, Slice(s, 0, Len(s) - 1))

calculate_filename(self, current_time) ==
    LET time_tuple == IF self.utc THEN gmtime(current_time) ELSE localtime(current_time)
    IN  self.origFileName \o << "." >> \o strftime(self.suffix, time_tuple) \o self.postfix

\* The weekly part of compute_rollover: the days to wait from the day the
\* aligned instant result belongs to, and the DST adjustment of the sum
WeeklyRollover(self, t, cur_day, result) ==
    LET day == cur_day
        days_to_wait ==
            IF day < self.dayOfWeek
            THEN self.dayOfWeek - day
            ELSE 6 - day + self.dayOfWeek + 1
        new_rollover_at == result + days_to_wait * (60 * 60 * 24)
        dst_now == t.tm_isdst
        Adjusted(dst_at_rollover) ==
            IF self.utc \/ dst_now = dst_at_rollover THEN new_rollover_at
            ELSE IF dst_now = 0 THEN new_rollover_at - 3600
            ELSE new_rollover_at + 3600
    IN  IF day # self.dayOfWeek
        THEN Adjusted(IF self.utc THEN 0 ELSE localtime(new_rollover_at).tm_isdst)
        ELSE result

\* compute_rollover with the anchor of a handler without atTime taken as
\* second 0 of the day instead of second 86400 (mutant)
compute_rollover_anchor0(self, current_time) ==
    LET Aligned(t) ==
            LET r0 == 0 - ((t.tm_hour * 60 + t.tm_min) * 60 + t.tm_sec)
                r  == IF r0 < 0 THEN r0 + _MIDNIGHT ELSE r0
                cur_day == IF r0 < 0 THEN (t.tm_wday + 1) % 7 ELSE t.tm_wday
            IN  IF IsWeekly(self.when)
                THEN WeeklyRollover(self, t, cur_day, current_time + r)
                ELSE current_time + r
    IN  IF IsMidnight(self.when) \/ IsWeekly(self.when)
        THEN Aligned(IF self.utc THEN gmtime(current_time) ELSE localtime(current_time))
        ELSE current_time + self.interval

\* compute_rollover without the alignment of MIDNIGHT and weekly (mutant)
compute_rollover_plain(self, current_time) == current_time + self.interval

compute_rollover(self, current_time) ==
    LET result == current_time + self.interval
        \* the branch for MIDNIGHT and weekly, t the struct_time of current_time
        Aligned(t) ==
            LET cur_hour == t.tm_hour
                cur_min  == t.tm_min
                cur_sec  == t.tm_sec
                rotate_ts ==
                    IF self.atTime = None THEN _MIDNIGHT
                    ELSE (self.atTime[1] * 60 + self.atTime[2]) * 60 + self.atTime[3]
                r0 == rotate_ts - ((cur_hour * 60 + cur_min) * 60 + cur_sec)
                r  == IF r0 < 0 THEN r0 + _MIDNIGHT ELSE r0
                cur_day == IF r0 < 0 THEN (t.tm_wday + 1) % 7 ELSE t.tm_wday
            IN  IF IsWeekly(self.when)
                THEN WeeklyRollover(self, t, cur_day, current_time + r)
                ELSE current_time + r
    IN  IF IsMidnight(self.when) \/ IsWeekly(self.when)
        THEN Aligned(IF self.utc THEN gmtime(current_time) ELSE localtime(current_time))
        ELSE result

\* One I/O operation on the directory, as an entry of an operation's trace
Io(ev, name) == [ev |-> ev, name |-> name]

\* sorted(S) for a set of strings, as result.sort() orders them
RECURSIVE SortedSeq(_)
SortedSeq(S) ==
    IF S = {} THEN << >>
    ELSE LET least == CHOOSE x \in S : \A y \in S \ {x} : StrLess(x, y)
         IN  << least >> \o SortedSeq(S \ {least})

\* Candidates without the comparison of the prefix (mutant)
Candidates_any_prefix(self, new_filename, filenames) ==
    LET prelen  == Len(self.origFileName) + 1
        postlen == Len(self.postfix)
    IN  {fname \in filenames :
           /\ LastN(fname, postlen) = self.postfix
           /\ Len(fname) - postlen > prelen
           /\ fname # new_filename
           /\ match(self.extMatch, Slice(fname, prelen, Len(fname) - postlen))}

\* The files of the listing that count as this handler's rotated files
Candidates(self, new_filename, filenames) ==
    LET prefix  == self.origFileName \o << "." >>
        postfix == self.postfix
        prelen  == Len(prefix)
        postlen == Len(postfix)
    IN  {fname \in filenames :
           /\ Slice(fname, 0, prelen) = prefix
           /\ LastN(fname, postlen) = postfix
           /\ Len(fname) - postlen > prelen
           /\ fname # new_filename
           /\ match(self.extMatch, Slice(fname, prelen, Len(fname) - postlen))}

\* get_files_to_delete that counts the new file among the files kept (mutant)
get_files_to_delete_keep_total(self, new_filename, filenames) ==
    LET Keep(result) ==
            IF Len(result) < self.backupCount THEN << >>
            ELSE Slice(result, 0, Len(result) - self.backupCount + 1)
    IN  Keep(SortedSeq(Candidates(self, new_filename, filenames)))

\* get_files_to_delete that drops from the wrong end of the sorted list (mutant)
get_files_to_delete_newest(self, new_filename, filenames) ==
    LET Keep(result) ==
            IF Len(result) < self.backupCount THEN << >>
            ELSE Slice(result, self.backupCount, Len(result))
    IN  Keep(SortedSeq(Candidates(self, new_filename, filenames)))

get_files_to_delete(self, new_filename, filenames) ==
    LET Keep(result) ==
            IF Len(result) < self.backupCount THEN << >>
            ELSE Slice(result, 0, Len(result) - self.backupCount)
    IN  Keep(SortedSeq(Candidates(self, new_filename, filenames)))

\* while new_rollover_at <= cur_time: new_rollover_at += self.interval.
\* The loop ends only if interval > 0; a result <= cur_time stands for the
\* loop that never ends.
RECURSIVE CatchUp(_, _, _)
CatchUp(new_rollover_at, cur_time, interval) ==
    IF new_rollover_at <= cur_time /\ interval > 0
    THEN CatchUp(new_rollover_at + interval, cur_time, interval)
    ELSE new_rollover_at

\* What the file system refuses: os.remove of the names in unremovable
\* raises OSError; when readonly, opening a file raises OSError
NoFaults == [unremovable |-> {}, readonly |-> FALSE]

\* The elements of a sequence
Range(q) == {q[i] : i \in 1..Len(q)}

\* The end of doRollover: the next rollover instant after cur_time, with
\* the loop and the DST adjustment; hung: the while loop never ends
NextRolloverAt(self, cur_time) ==
    LET DstAdjusted(nra0) ==
            IF (IsMidnight(self.when) \/ IsWeekly(self.when)) /\ ~self.utc
            THEN LET Adjust(dst_now, dst_at_rollover) ==
                         IF dst_now = dst_at_rollover THEN nra0
                         ELSE IF dst_now = 0 THEN nra0 - 3600
                         ELSE nra0 + 3600
                 IN  Adjust(localtime(cur_time).tm_isdst, localtime(nra0).tm_isdst)
            ELSE nra0
        CaughtUp(nra0) ==
            IF nra0 <= cur_time THEN [at |-> self.rolloverAt, hung |-> TRUE]
            ELSE [at |-> DstAdjusted(nra0), hung |-> FALSE]
    IN  CaughtUp(CatchUp(compute_rollover(self, cur_time), cur_time, self.interval))

\* doRollover without the try around os.remove: the first removal that
\* fails ends the rollover with its exception (mutant)
doRollover_remove_raises(self, files, fs) ==
    LET closing == IF self.stream # None THEN << Io("close", self.stream) >> ELSE << >>
        RollTo(cur_time, new_filename) ==
            LET files1 == files \cup {new_filename}
                Pruned(doomed, done) ==
                    LET Upto(next, failed) ==
                            [h   |-> [self EXCEPT !.baseFilename = new_filename,
                                                  !.stream = new_filename,
                                                  !.rolloverAt = next.at],
                             dir |-> files1 \ Range(done),
                             io  |-> closing \o << Io("open", new_filename) >>
                                       \o [i \in 1..Len(done) |-> Io("remove", done[i])]
                                       \o (IF failed
                                           THEN << Io("remove_failed", doomed[Len(done) + 1]) >>
                                           ELSE << >>),
                             error |-> IF failed THEN "OSError" ELSE "",
                             hung |-> next.hung]
                    IN  IF Len(done) < Len(doomed)
                        THEN Upto([at |-> self.rolloverAt, hung |-> FALSE], TRUE)
                        ELSE Upto(NextRolloverAt(self, cur_time), FALSE)
                \* the entries of doomed before the first that cannot be removed
                Selected(doomed) ==
                    Pruned(doomed,
                           SubSeq(doomed, 1,
                                  CHOOSE n \in 0..Len(doomed) :
                                      /\ \A i \in 1..n : doomed[i] \notin fs.unremovable
                                      /\ n < Len(doomed) => doomed[n + 1] \in fs.unremovable))
            IN  IF fs.readonly
                THEN [h   |-> [self EXCEPT !.baseFilename = new_filename, !.stream = None],
                      dir |-> files,
                      io  |-> closing \o << Io("open_failed", new_filename) >>,
                      error |-> "OSError", hung |-> FALSE]
                ELSE Selected(IF self.backupCount > 0
                              THEN get_files_to_delete(self, new_filename, files1)
                              ELSE << >>)
    IN  RollTo(self.rolloverAt, calculate_filename(self, self.rolloverAt))

\* doRollover that stores the next rollover instant before it opens the
\* new file, so that a failed open leaves the instant advanced (mutant)
doRollover_reschedule_first(self, files, fs) ==
    LET closing == IF self.stream # None THEN << Io("close", self.stream) >> ELSE << >>
        RollTo(cur_time, new_filename) ==
            LET files1 == files \cup {new_filename}
                Pruned(doomed) ==
                    LET removing ==
                            [i \in 1..Len(doomed) |->
                                IF doomed[i] \in fs.unremovable
                                THEN Io("remove_failed", doomed[i])
                                ELSE Io("remove", doomed[i])]
                        Upto(next) ==
                            [h   |-> [self EXCEPT !.baseFilename = new_filename,
                                                  !.stream = new_filename,
                                                  !.rolloverAt = next.at],
                             dir |-> files1 \ (Range(doomed) \ fs.unremovable),
                             io  |-> closing \o << Io("open", new_filename) >> \o removing,
                             error |-> "", hung |-> next.hung]
                    IN  Upto(NextRolloverAt(self, cur_time))
                Failed(next) ==
                    [h   |-> [self EXCEPT !.baseFilename = new_filename, !.stream = None,
                                          !.rolloverAt = next.at],
                     dir |-> files,
                     io  |-> closing \o << Io("open_failed", new_filename) >>,
                     error |-> "OSError", hung |-> FALSE]
            IN  IF fs.readonly
                THEN Failed(NextRolloverAt(self, cur_time))
                ELSE Pruned(IF self.backupCount > 0
                            THEN get_files_to_delete(self, new_filename, files1)
                            ELSE << >>)
    IN  RollTo(self.rolloverAt, calculate_filename(self, self.rolloverAt))

\* doRollover in a directory holding files, under the faults fs.  error is
\* the exception that leaves doRollover; hung: the while loop never ends.
doRollover(self, files, fs) ==
    LET closing == IF self.stream # None THEN << Io("close", self.stream) >> ELSE << >>
        \* from the new file's name on: open, prune, reschedule
        RollTo(cur_time, new_filename) ==
            LET files1 == files \cup {new_filename}
                Pruned(doomed) ==
                    LET removing ==
                            [i \in 1..Len(doomed) |->
                                IF doomed[i] \in fs.unremovable
                                THEN Io("remove_failed", doomed[i])
                                ELSE Io("remove", doomed[i])]
                        Upto(next) ==
                            [h   |-> [self EXCEPT !.baseFilename = new_filename,
                                                  !.stream = new_filename,
                                                  !.rolloverAt = next.at],
                             dir |-> files1 \ (Range(doomed) \ fs.unremovable),
                             io  |-> closing \o << Io("open", new_filename) >> \o removing,
                             error |-> "", hung |-> next.hung]
                    IN  Upto(NextRolloverAt(self, cur_time))
            IN  IF fs.readonly
                THEN [h   |-> [self EXCEPT !.baseFilename = new_filename, !.stream = None],
                      dir |-> files,
                      io  |-> closing \o << Io("open_failed", new_filename) >>,
                      error |-> "OSError", hung |-> FALSE]
                ELSE Pruned(IF self.backupCount > 0
                            THEN get_files_to_delete(self, new_filename, files1)
                            ELSE << >>)
    IN  RollTo(self.rolloverAt, calculate_filename(self, self.rolloverAt))

\* What shouldRollover leaves when no rollover is due
NotDue(self, files) == [h |-> self, dir |-> files, io |-> << >>, error |-> "", hung |-> FALSE]

\* The rest of BaseRotatingHandler.emit on the handler and directory r that
\* the rollover check left: FileHandler.emit reopens baseFilename in append
\* mode when there is no stream, and writes; an exception of doRollover or
\* of the open goes to handleError (handled), none reaches the caller
FileEmit(r, due, fs) ==
    LET reopening == r.h.stream = None
        target == r.h.baseFilename
        stream == IF reopening THEN target ELSE r.h.stream
    IN  IF r.error # "" \/ r.hung
        THEN [h |-> r.h, dir |-> r.dir, io |-> r.io, rolled |-> due,
              error |-> "", handled |-> r.error, hung |-> r.hung]
        ELSE IF reopening /\ fs.readonly
        THEN [h |-> r.h, dir |-> r.dir, io |-> r.io \o << Io("open_failed", target) >>,
              rolled |-> due, error |-> "", handled |-> "OSError", hung |-> FALSE]
        ELSE [h   |-> [r.h EXCEPT !.stream = stream],
              dir |-> IF reopening THEN r.dir \cup {target} ELSE r.dir,
              io  |-> r.io
                        \o (IF reopening THEN << Io("open", target) >> ELSE << >>)
                        \o << Io("write", stream) >>,
              rolled |-> due, error |-> "", handled |-> "", hung |-> FALSE]

\* emit that writes before it looks at the rollover (mutant)
emit_write_first(self, files, t, fs) ==
    LET due == t >= self.rolloverAt
        Then(w) ==
            LET After(r) ==
                    [h |-> r.h, dir |-> r.dir, io |-> w.io \o r.io, rolled |-> due,
                     error |-> "", handled |-> r.error, hung |-> r.hung]
            IN  After(IF due THEN doRollover(w.h, w.dir, fs) ELSE NotDue(w.h, w.dir))
    IN  Then(FileEmit(NotDue(self, files), due, fs))

\* emit whose rollover starts from the wall clock instead of the instant
\* that was due (mutant)
emit_from_now(self, files, t, fs) ==
    LET due == t >= self.rolloverAt
    IN  FileEmit(IF due THEN doRollover([self EXCEPT !.rolloverAt = t], files, fs)
                 ELSE NotDue(self, files),
                 due, fs)

\* emit that does not reopen the file of a closed handler, as FileHandler
\* does for mode 'w' (mutant)
emit_no_reopen(self, files, t, fs) ==
    LET due == t >= self.rolloverAt
        After(r) ==
            LET reopening == r.h.stream = None /\ ~r.h.closed
                target == r.h.baseFilename
                stream == IF reopening THEN target ELSE r.h.stream
            IN  [h   |-> [r.h EXCEPT !.stream = stream],
                 dir |-> IF reopening THEN r.dir \cup {target} ELSE r.dir,
                 io  |-> r.io
                           \o (IF reopening THEN << Io("open", target) >> ELSE << >>)
                           \o (IF stream # None THEN << Io("write", stream) >> ELSE << >>),
                 rolled |-> due, error |-> "", handled |-> r.error, hung |-> r.hung]
    IN  After(IF due THEN doRollover(self, files, fs) ELSE NotDue(self, files))

\* emit without the except clause: what doRollover raises leaves emit
\* (mutant)
emit_propagates(self, files, t, fs) ==
    LET due == t >= self.rolloverAt
        After(e, r) == [e EXCEPT !.error = r.error, !.handled = ""]
        Checked(r) == After(FileEmit(r, due, fs), r)
    IN  Checked(IF due THEN doRollover(self, files, fs) ELSE NotDue(self, files))

\* BaseRotatingHandler.emit: shouldRollover, doRollover, FileHandler.emit,
\* and handleError for what they raise.  error is what reaches the caller,
\* handled what handleError got.
emit(self, files, t, fs) ==
    LET due == t >= self.rolloverAt
    IN  FileEmit(IF due THEN doRollover(self, files, fs) ELSE NotDue(self, files),
                 due, fs)

\* FileHandler.close
close(self) ==
    [h  |-> [self EXCEPT !.stream = None, !.closed = TRUE],
     io |-> IF self.stream # None THEN << Io("close", self.stream) >> ELSE << >>]

\* The attributes of a handler; NoHandler before and without construction
NoHandler ==
    [origFileName |-> None, postfix |-> None, when |-> None, interval |-> NoInt,
     backupCount |-> NoInt, utc |-> FALSE, atTime |-> None, dayOfWeek |-> NoInt,
     suffix |-> None, extMatch |-> [core |-> None, ext |-> FALSE],
     baseFilename |-> None, stream |-> None, closed |-> FALSE, rolloverAt |-> NoInt]

\* CustomTimedRotatingFileHandler(filename, when, interval, backup_cnt, utc=utc,
\* at_time=at_time)
\* at time.time() = current_time, in a directory holding files, under the
\* faults fs
init(a, current_time, files, fs) ==
    LET when == Upper(a.when)
        unit == UnitTable(when)
        err  == UnitError(when)
        self0 == [NoHandler EXCEPT
                    !.origFileName = a.filename, !.postfix = Postfix,
                    !.when = when, !.backupCount = a.backup_cnt, !.utc = a.utc,
                    !.atTime = a.at_time,
                    !.dayOfWeek = IF IsWeekly(when) THEN DigitVal(when[2]) ELSE NoInt,
                    !.suffix = unit.suffix]
        \* super().__init__(filename=...): opens the file, sets atTime = None
        \* (not passed on), its own extMatch, and interval = unit interval *
        \* interval; then lines 63-66
        Super(filename) ==
            LET Scheduled(self2) ==
                    [ok |-> TRUE, error |-> "",
                     h |-> [self2 EXCEPT !.rolloverAt = compute_rollover(self2, current_time)],
                     dir |-> files \cup {filename},
                     io |-> << Io("open", filename) >>]
                Multiplied(self1) ==
                    Scheduled([self1 EXCEPT !.interval = self1.interval * a.interval])
            IN  IF fs.readonly
                THEN [ok |-> FALSE, error |-> "OSError", h |-> NoHandler, dir |-> files,
                      io |-> << Io("open_failed", filename) >>]
                ELSE Multiplied([self0 EXCEPT
                                   !.baseFilename = filename, !.stream = filename,
                                   !.atTime = None, !.extMatch = ExtMatch(when),
                                   !.interval = unit.interval * a.interval])
    IN  IF err # ""
        THEN [ok |-> FALSE, error |-> err, h |-> NoHandler, dir |-> files, io |-> << >>]
        ELSE Super(calculate_filename(self0, current_time))

(***************************************************************************)
(* The inputs: constructor arguments, start instants, directory contents.  *)
(***************************************************************************)
\* at_time as (hour, minute, second): the default of __init__, and 13:45:00
AtMidnight == << 0, 0, 0 >>

AtTimes == {AtMidnight, << 13, 45, 0 >>}

\* The unit tokens, as callers pass them (Log passes 'd')
WhenS == << "s" >>

WhenM == << "m" >>

WhenH == << "h" >>

WhenD == << "d" >>

WhenMidnight == << "m", "i", "d", "n", "i", "g", "h", "t" >>

WhenW(d) == << "w", DigitChar(d) >>

ValidWhens == {WhenS, WhenM, WhenH, WhenD, WhenMidnight} \cup {WhenW(d) : d \in 0..6}

\* Tokens __init__ rejects: unknown unit, weekly without a day, weekly with
\* a day outside 0..6, weekly with two digits
InvalidWhens == {<< "x" >>, << "w" >>, << "w", "7" >>, << "w", "1", "2" >>}

\* 2024-03-09 23:00:00 UTC, a Saturday, eight hours before DST begins
StartSpring == 19791 * _MIDNIGHT + 23 * 3600

\* 2024-11-02 23:00:00 local (EDT), a Saturday, the eve of the 25-hour day
StartAutumn == 20030 * _MIDNIGHT + 3 * 3600

\* How far one Tick moves the clock
Steps == {1, 3600, _MIDNIGHT}

\* A handler as constructed from a at t, for naming files only
Namer(a, t) == init(a, t, {}, NoFaults).h

\* The names of k earlier rotated files of this writer, one per day back
OldFiles(a, t, k) == {calculate_filename(Namer(a, t), t - i * _MIDNIGHT) : i \in 1..k}

\* The suffix of the file one day back, and names built around it that
\* are not this writer's: another base name, no suffix, another postfix,
\* another separator
OldSuffix(a, t) == strftime(Namer(a, t).suffix, gmtime(t - _MIDNIGHT))

ForeignFiles(a, t) ==
    LET sfx == OldSuffix(a, t)
    IN  { << "s", "v", "a", "." >> \o sfx \o Postfix,
          BaseName \o Postfix,
          BaseName \o << "." >> \o sfx \o << ".", "t", "x", "t" >>,
          BaseName \o << "." >> \o [sfx EXCEPT ![5] = "_"] \o Postfix }

\* A name the formatter never produces and the matcher accepts
\* (a suffix followed by an extension)
ExtendedFile(a, t) == BaseName \o << "." >> \o OldSuffix(a, t) \o << ".", "b", "a", "k" >> \o Postfix

\* The process before any Log: not under a debugger, no -lvl flag, the
\* interpreter's own excepthook
NoProc == [is_debugging |-> FALSE, argv_level |-> None, excepthook |-> 0]

NoResult ==
    [op |-> "none", error |-> "", handled |-> "", io |-> << >>, rolled |-> FALSE, at |-> NoInt,
     prev |-> NoHandler, dirBefore |-> {}, out |-> NoInt]

(***************************************************************************)
(* The Log class (src/easylogger/log.py): a logging.Logger that gives      *)
(* itself a console handler and, when it logs to file, a rotating file     *)
(* handler.  A Log is constructed directly, not through logging.getLogger, *)
(* so it has no parent in the logging hierarchy and nothing propagates:    *)
(* its records reach its own handlers only.                                *)
(***************************************************************************)
\* The names of the levels of the logging module
StrNOTSET == << "N", "O", "T", "S", "E", "T" >>

StrDEBUG == << "D", "E", "B", "U", "G" >>

StrINFO == << "I", "N", "F", "O" >>

StrWARN == << "W", "A", "R", "N" >>

StrWARNING == << "W", "A", "R", "N", "I", "N", "G" >>

StrERROR == << "E", "R", "R", "O", "R" >>

StrCRITICAL == << "C", "R", "I", "T", "I", "C", "A", "L" >>

StrFATAL == << "F", "A", "T", "A", "L" >>

\* Log.DEFAULT_LOG_LEVEL
DEFAULT_LOG_LEVEL == StrINFO

\* getattr(logging, name, logging.DEBUG) for an upper-case name
LevelAttr(name) ==
    CASE name = StrCRITICAL \/ name = StrFATAL -> 50
      [] name = StrERROR -> 40
      [] name = StrWARNING \/ name = StrWARN -> 30
      [] name = StrINFO -> 20
      [] name = StrDEBUG -> 10
      [] name = StrNOTSET -> 0
      [] OTHER -> 10

\* logging.getLevelName(level) for a level number
getLevelName(level) ==
    CASE level = 50 -> StrCRITICAL
      [] level = 40 -> StrERROR
      [] level = 30 -> StrWARNING
      [] level = 20 -> StrINFO
      [] level = 10 -> StrDEBUG
      [] level = 0 -> StrNOTSET
      [] OTHER -> << "L", "e", "v", "e", "l" >>

\* LogArgParser(is_debugging).log_level_str: DEBUG under a debugger, else
\* the value of the -lvl flag, else INFO
LogArgParser(p) ==
    IF p.is_debugging THEN StrDEBUG
    ELSE IF p.argv_level # None THEN p.argv_level
    ELSE StrINFO

\* os.path.join
Join(a, b) == a \o << "/" >> \o b

\* os.path.join(os.path.expanduser('~'), 'logs'), from the home directory
HomeLogs == << "l", "o", "g", "s" >>

\* No parent, and the attributes of a Log before construction; history:
\* arg_level, the log_level_str it was constructed with; closed, close() has
\* returned; released, the handlers close() closed
NoParent == [kind |-> "none", ref |-> 0]

NoLog ==
    [is_child |-> FALSE, log_name |-> None, name |-> None, log_to_file |-> FALSE,
     log_parent |-> NoParent, log_level_str |-> None, log_level_int |-> NoInt,
     level |-> NoInt, log_path |-> None, handlers |-> << >>,
     arg_level |-> None, closed |-> FALSE, released |-> << >>]

\* A handler attached to a Log: a StreamHandler has no file
StreamHandler(level) == [cls |-> "StreamHandler", level |-> level, h |-> NoHandler]

\* _set_log_level for a child that ignores its parent (mutant)
_set_log_level_default(self, log_level_str, parent, p) ==
    LET Set(s) ==
            [self EXCEPT !.log_level_str = s,
                         !.log_level_int = LevelAttr(Upper(s)),
                         !.level = LevelAttr(Upper(s))]
    IN  Set(IF log_level_str # None THEN log_level_str
            ELSE IF self.is_child THEN DEFAULT_LOG_LEVEL
            ELSE LogArgParser(p))

\* Log._set_log_level; parent is the Log self.log_parent refers to (NoLog
\* when it is not a Log)
_set_log_level(self, log_level_str, parent, p) ==
    LET Set(s) ==
            [self EXCEPT !.log_level_str = s,
                         !.log_level_int = LevelAttr(Upper(s)),
                         !.level = LevelAttr(Upper(s))]
    IN  Set(IF log_level_str # None THEN log_level_str
            ELSE IF self.is_child
                 THEN IF self.log_parent.kind = "log"
                      THEN getLevelName(parent.log_level_int)
                      ELSE DEFAULT_LOG_LEVEL
            ELSE LogArgParser(p))

\* Log._build_log_path
_build_log_path(self, log_dir) ==
    LET log_filename == self.log_name
        dir_path == Join(HomeLogs, IF log_dir # None THEN log_dir ELSE self.log_name)
    IN  [self EXCEPT !.log_path = Join(dir_path, log_filename)]

\* The arguments Log._set_handlers gives the file handler
FileHandlerArgs(log_path) ==
    [filename |-> log_path, when |-> << "d" >>, interval |-> 1, backup_cnt |-> 30,
     utc |-> FALSE, at_time |-> AtMidnight]

\* Log._set_handlers at time t: the log with its handlers, and the files
_set_handlers(self, t, files, fs) ==
    LET sh == StreamHandler(self.log_level_int)
        WithFile(c) ==
            IF c.ok
            THEN [ok |-> TRUE,
                  log |-> [self EXCEPT !.handlers =
                              << sh, [cls |-> "CustomTimedRotatingFileHandler",
                                      level |-> self.log_level_int, h |-> c.h] >>],
                  dir |-> c.dir]
            ELSE [ok |-> FALSE, log |-> [self EXCEPT !.handlers = << sh >>], dir |-> c.dir]
    IN  IF self.log_to_file
        THEN WithFile(init(FileHandlerArgs(self.log_path), t, files, fs))
        ELSE [ok |-> TRUE, log |-> [self EXCEPT !.handlers = << sh >>], dir |-> files]

\* Logger.callHandlers for a record of level levelno: every handler of the
\* log whose level admits the record emits it
RECURSIVE callHandlers(_, _, _, _, _)
callHandlers(handlers, levelno, t, files, fs) ==
    IF handlers = << >> THEN [handlers |-> << >>, dir |-> files]
    ELSE LET hdlr == Head(handlers)
             Rest(first) ==
                 LET Joined(rest) ==
                         [handlers |-> << first.hdlr >> \o rest.handlers, dir |-> rest.dir]
                 IN  Joined(callHandlers(Tail(handlers), levelno, t, first.dir, fs))
             Emitted(e) == [hdlr |-> [hdlr EXCEPT !.h = e.h], dir |-> e.dir]
         IN  IF levelno >= hdlr.level /\ hdlr.cls # "StreamHandler"
             THEN Rest(Emitted(emit(hdlr.h, files, t, fs)))
             ELSE Rest([hdlr |-> hdlr, dir |-> files])

\* Logger.info: isEnabledFor(INFO), with no parent to take a level from,
\* then callHandlers
info(self, t, files, fs) ==
    LET Called(c) == [log |-> [self EXCEPT !.handlers = c.handlers], dir |-> c.dir]
    IN  IF 20 >= self.level
        THEN Called(callHandlers(self.handlers, 20, t, files, fs))
        ELSE [log |-> self, dir |-> files]

\* Log(log, child_name, log_level_str, log_to_file, log_dir) at time t.
\* log is a name or a reference to a Log of all; a.log = [kind, ref, name].
Log_init(a, all, p, t, files, fs) ==
    LET is_child == a.child_name # None
        parent == IF a.log.kind = "log" THEN all[a.log.ref] ELSE NoLog
        log_name == IF a.log.kind = "log" THEN parent.name ELSE a.log.name
        self0 ==
            [NoLog EXCEPT
               !.is_child = is_child,
               !.arg_level = a.log_level_str,
               !.log_name = log_name,
               !.log_parent = IF is_child THEN [kind |-> a.log.kind, ref |-> a.log.ref]
                              ELSE NoParent,
               !.name = IF is_child THEN log_name \o << "." >> \o a.child_name
                        ELSE log_name,
               !.level = LevelAttr(DEFAULT_LOG_LEVEL),
               !.log_to_file = IF is_child /\ a.log.kind = "log"
                               THEN parent.log_to_file ELSE a.log_to_file]
        Greeted(r) == info(r.log, t, r.dir, fs)
        WithPath(self2) == Greeted(_set_handlers(self2, t, files, fs))
        WithLevel(self1) ==
            WithPath(IF self1.log_to_file THEN _build_log_path(self1, a.log_dir)
                     ELSE self1)
    IN  WithLevel(_set_log_level(self0, a.log_level_str, parent, p))

\* The loop of Log.close: for handler in self.handlers: handler.close();
\* self.removeHandler(handler).  The list iterator goes by position, i the
\* number of handlers it has passed; removing the handler it stands on
\* brings the next one into the position just passed.  done: the handlers
\* closed so far.
RECURSIVE CloseLoop(_, _, _)
CloseLoop(handlers, i, done) ==
    IF i >= Len(handlers) THEN [handlers |-> handlers, released |-> done]
    ELSE CloseLoop(SubSeq(handlers, 1, i) \o SubSeq(handlers, i + 2, Len(handlers)),
                   i + 1,
                   Append(done, [handlers[i + 1] EXCEPT !.h = close(@).h]))

\* Log.close
Log_close(self, t, files, fs) ==
    LET Looped(log, c) ==
            [log EXCEPT !.handlers = c.handlers, !.released = c.released, !.closed = TRUE]
        Said(r) ==
            [log |-> IF self.is_child THEN [r.log EXCEPT !.closed = TRUE]
                     ELSE Looped(r.log, CloseLoop(r.log.handlers, 0, << >>)),
             dir |-> r.dir]
    IN  Said(info(self, t, files, fs))

(***************************************************************************)
(* The operations.                                                         *)
(***************************************************************************)
Construct ==
    LET Done(c) ==
            /\ phase' = IF c.ok THEN "open" ELSE "failed"
            /\ h' = c.h
            /\ dir' = c.dir
            /\ res' = [NoResult EXCEPT !.op = "init", !.error = c.error, !.io = c.io,
                                       !.at = now, !.prev = h, !.dirBefore = dir]
    IN  /\ phase = "new"
        /\ Done(init(args, now, dir, faults))
        /\ UNCHANGED << args, now, ticks, faults, dir0, rollovers, logs, proc >>

\* One record handed to the handler.  An emit whose rollover never ends
\* does not return: the run stops there (phase "hung").
Emit ==
    LET Done(e) ==
            /\ phase' = IF e.hung THEN "hung" ELSE phase
            /\ h' = e.h
            /\ dir' = e.dir
            /\ rollovers' = IF e.rolled THEN rollovers + 1 ELSE rollovers
            /\ res' = [NoResult EXCEPT !.op = "emit", !.io = e.io, !.rolled = e.rolled,
                                       !.error = e.error, !.handled = e.handled,
                                       !.at = now, !.prev = h, !.dirBefore = dir]
    IN  /\ phase = "open"
        /\ now >= h.rolloverAt => rollovers < MaxRollovers
        /\ Done(emit(h, dir, now, faults))
        /\ UNCHANGED << args, now, ticks, faults, dir0, logs, proc >>

Close ==
    /\ phase = "open"
    /\ LET c == close(h)
       IN  /\ h' = c.h
           /\ res' = [NoResult EXCEPT !.op = "close", !.io = c.io,
                                      !.at = now, !.prev = h, !.dirBefore = dir]
    /\ UNCHANGED << args, now, ticks, phase, dir, faults, dir0, rollovers, logs, proc >>

\* The clock advances by one of the given steps
TickBy(steps, max) ==
    /\ phase = "open"
    /\ ticks < max
    /\ \E step \in steps : now' = now + step
    /\ ticks' = ticks + 1
    /\ UNCHANGED << args, phase, h, dir, faults, dir0, rollovers, res, logs, proc >>

Tick == TickBy(Steps, MaxTicks)

TickDay == TickBy({_MIDNIGHT}, MaxDays)

\* The process is idle for some whole intervals of the handler and a part
\* of one, once
Sleep ==
    /\ phase = "open"
    /\ ticks = 0
    /\ \E q \in 0..MaxRollovers, part \in {0, 1} : now' = now + q * h.interval + part
    /\ ticks' = ticks + 1
    /\ UNCHANGED << args, phase, h, dir, faults, dir0, rollovers, res, logs, proc >>

\* The policy applied on its own to the instant now
ComputeRollover ==
    /\ phase = "open"
    /\ phase' = "computed"
    /\ res' = [NoResult EXCEPT !.op = "compute_rollover", !.at = now, !.prev = h,
                               !.dirBefore = dir, !.out = compute_rollover(h, now)]
    /\ UNCHANGED << args, now, ticks, h, dir, faults, dir0, rollovers, logs, proc >>

\* The instants whose names are compared: around the end of DST (the local
\* hour 01:00-02:00 comes twice), around its start, and around the new year
NameInstants ==
    {DstEnd + d : d \in {0 - 5400, 0 - 1800, 0 - 1, 0, 600, 3600, 7200}}
    \cup {DstBegin + d : d \in {0 - 1, 0, 3600}}
    \cup {20089 * _MIDNIGHT + d : d \in {0 - 1, 0, 5 * 3600}}

\* The formatter applied on its own to the instant now and to a later one
CalculateFilenames ==
    /\ phase = "open"
    /\ phase' = "computed"
    /\ \E t2 \in NameInstants :
          /\ now < t2
          /\ res' = [NoResult EXCEPT !.op = "calculate_filename", !.at = now, !.out = t2,
                                     !.io = << Io("name", calculate_filename(h, now)),
                                               Io("name", calculate_filename(h, t2)) >>,
                                     !.prev = h, !.dirBefore = dir]
    /\ UNCHANGED << args, now, ticks, h, dir, faults, dir0, rollovers, logs, proc >>

\* What callers pass to Log(): a name no Log has yet, or a Log as parent
LogNames == {<< "m" >>}

RootLevels == {None, StrDEBUG, << "w", "a", "r", "n" >>, StrERROR, << "x" >>}

ChildLevels == {None, StrWARN}

LogDirs == {None, << "x" >>}

\* Log(name, ...), also with a child_name (a child without a parent Log)
NewLog ==
    /\ Len(logs) < MaxLogs
    /\ \E name \in LogNames, child_name \in {None, << "c" >>}, lvl \in RootLevels,
          to_file \in BOOLEAN, log_dir \in LogDirs :
          LET Done(r) ==
                  /\ logs' = Append(logs, r.log)
                  /\ dir' = r.dir
          IN  /\ \A i \in 1..Len(logs) : logs[i].log_name # name
              /\ Done(Log_init([log |-> [kind |-> "str", ref |-> 0, name |-> name],
                                child_name |-> child_name, log_level_str |-> lvl,
                                log_to_file |-> to_file, log_dir |-> log_dir],
                               logs, proc, now, dir, faults))
    /\ proc' = [proc EXCEPT !.excepthook = Len(logs) + 1]
    /\ UNCHANGED << args, now, ticks, phase, h, faults, dir0, rollovers, res >>

\* Log(parent, child_name=...), parent a Log
NewChild ==
    /\ Len(logs) < MaxLogs
    /\ \E i \in 1..Len(logs), lvl \in ChildLevels, to_file \in BOOLEAN :
          LET Done(r) ==
                  /\ logs' = Append(logs, r.log)
                  /\ dir' = r.dir
          IN  Done(Log_init([log |-> [kind |-> "log", ref |-> i, name |-> None],
                             child_name |-> << "c" >>, log_level_str |-> lvl,
                             log_to_file |-> to_file, log_dir |-> None],
                            logs, proc, now, dir, faults))
    /\ proc' = [proc EXCEPT !.excepthook = Len(logs) + 1]
    /\ UNCHANGED << args, now, ticks, phase, h, faults, dir0, rollovers, res >>

\* log.close()
CloseLog ==
    /\ \E i \in 1..Len(logs) :
          LET Done(r) ==
                  /\ logs' = [logs EXCEPT ![i] = r.log]
                  /\ dir' = r.dir
          IN  /\ ~logs[i].closed
              /\ Done(Log_close(logs[i], now, dir, faults))
    /\ UNCHANGED << args, now, ticks, phase, h, faults, dir0, rollovers, res, proc >>

(***************************************************************************)
(* Specifications.                                                         *)
(***************************************************************************)
InitWith(Args, Starts) ==
    /\ args \in Args
    /\ now \in Starts
    /\ ticks = 0
    /\ phase = "new"
    /\ h = NoHandler
    /\ rollovers = 0
    /\ logs = << >>
    /\ proc = NoProc
    /\ res = NoResult

\* The life cycle, for every unit token, in UTC and in local time
LifeArgs ==
    [filename : {BaseName}, when : {WhenS, WhenM, WhenH, WhenD, WhenMidnight, WhenW(0), WhenW(5)} \cup InvalidWhens,
     interval : 1..MaxInterval, backup_cnt : {1}, utc : BOOLEAN,
     at_time : {AtMidnight}]

Init ==
    /\ InitWith(LifeArgs, {StartSpring, StartAutumn})
    /\ dir = OldFiles(args, now, 2)
    /\ faults = NoFaults
    /\ dir0 = dir

Next == Construct \/ Emit \/ Close \/ Tick

Spec == Init /\ [][Next]_vars

\* Retention: a daily writer, the clock moving in days, over directories
\* holding up to MaxOld earlier files and files of other names
RetArgs ==
    [filename : {BaseName}, when : {WhenD}, interval : {1}, backup_cnt : 0..MaxBackup, utc : BOOLEAN,
     at_time : {AtMidnight}]

InitRet ==
    /\ InitWith(RetArgs, {StartSpring})
    /\ \E k \in 0..MaxOld :
          dir \in { OldFiles(args, now, k),
                    OldFiles(args, now, k) \cup ForeignFiles(args, now),
                    OldFiles(args, now, k) \cup ForeignFiles(args, now)
                        \cup {ExtendedFile(args, now)} }
    /\ faults = NoFaults
    /\ dir0 = dir

NextRet == Construct \/ Emit \/ Close \/ TickDay

SpecRet == InitRet /\ [][NextRet]_vars

\* The rollover policy on its own, over instants around both DST changes
PolicyDays == (19789..19795) \cup (20029..20031)

PolicySeconds ==
    {0, 1, 4 * 3600, 5 * 3600, 7 * 3600, 14 * 3600 + 15 * 60, 18 * 3600 + 15 * 60, _MIDNIGHT - 1}

PolicyInstants == {d * _MIDNIGHT + s : d \in PolicyDays, s \in PolicySeconds}

PolicyArgs ==
    [filename : {BaseName}, when : ValidWhens, interval : 1..MaxInterval, backup_cnt : {0},
     utc : BOOLEAN, at_time : AtTimes]

InitPolicy ==
    /\ InitWith(PolicyArgs, PolicyInstants)
    /\ dir = {}
    /\ faults = NoFaults
    /\ dir0 = dir

NextPolicy == Construct \/ ComputeRollover

SpecPolicy == InitPolicy /\ [][NextPolicy]_vars

\* Interval multipliers a caller can pass that are not positive
BadIntervals == {0 - 2, 0 - 1, 0}

\* The life cycle with multipliers of every sign
IntervalArgs ==
    [filename : {BaseName}, when : {WhenS, WhenH, WhenD, WhenMidnight, WhenW(0)},
     interval : BadIntervals \cup {1}, backup_cnt : {1}, utc : BOOLEAN,
     at_time : {AtMidnight}]

InitInterval ==
    /\ InitWith(IntervalArgs, {StartSpring, StartAutumn})
    /\ dir = OldFiles(args, now, 2)
    /\ faults = NoFaults
    /\ dir0 = dir

NextInterval == Construct \/ Emit \/ Close \/ Tick

SpecInterval == InitInterval /\ [][NextInterval]_vars

\* The life cycle of a daily writer in a file system that refuses some
\* removals, and that turns read-only and back
FaultArgs ==
    [filename : {BaseName}, when : {WhenD, WhenMidnight}, interval : {1}, backup_cnt : {1, 2}, utc : BOOLEAN,
     at_time : {AtMidnight}]

InitFault ==
    /\ InitWith(FaultArgs, {StartSpring})
    /\ dir = OldFiles(args, now, 3)
    /\ faults \in [unremovable : SUBSET dir, readonly : {FALSE}]
    /\ dir0 = dir

\* The directory's permissions change
Chmod ==
    /\ faults' = [faults EXCEPT !.readonly = ~@]
    /\ UNCHANGED << args, now, ticks, phase, h, dir, dir0, rollovers, res, logs, proc >>

NextFault == Construct \/ Emit \/ Close \/ TickDay \/ Chmod

SpecFault == InitFault /\ [][NextFault]_vars

\* The formatter on its own, for every kind of unit, in UTC and local time
NameArgs ==
    [filename : {BaseName}, when : {WhenS, WhenM, WhenH, WhenD, WhenMidnight, WhenW(0)},
     interval : {1}, backup_cnt : {0}, utc : BOOLEAN,
     at_time : {AtMidnight}]

InitNames ==
    /\ InitWith(NameArgs, NameInstants)
    /\ dir = {}
    /\ faults = NoFaults
    /\ dir0 = dir

NextNames == Construct \/ CalculateFilenames

SpecNames == InitNames /\ [][NextNames]_vars

\* An idle spell followed by emits, for the units that are not aligned
LagArgs ==
    [filename : {BaseName}, when : {WhenS, WhenM, WhenH, WhenD},
     interval : 1..MaxInterval, backup_cnt : {0, 1}, utc : BOOLEAN,
     at_time : {AtMidnight}]

InitLag ==
    /\ InitWith(LagArgs, {StartSpring})
    /\ dir = {}
    /\ faults = NoFaults
    /\ dir0 = dir

NextLag == Construct \/ Sleep \/ Emit

SpecLag == InitLag /\ [][NextLag]_vars

\* Logs, their children and the children of those, in one process
InitLog ==
    /\ args = [filename |-> None, when |-> None, interval |-> NoInt,
               backup_cnt |-> NoInt, utc |-> FALSE, at_time |-> None]
    /\ now = StartSpring
    /\ ticks = 0
    /\ phase = "new"
    /\ h = NoHandler
    /\ dir = {}
    /\ faults = NoFaults
    /\ dir0 = dir
    /\ rollovers = 0
    /\ res = NoResult
    /\ logs = << >>
    /\ proc \in [is_debugging : BOOLEAN, argv_level : {None, StrERROR}, excepthook : {0}]

NextLog == NewLog \/ NewChild \/ CloseLog

SpecLog == InitLog /\ [][NextLog]_vars

(***************************************************************************)
(* Properties of the rollover policy (under SpecPolicy).                   *)
(***************************************************************************)
\* The wall-clock reading of the handler's time base at instant t
Wall(self, t) ==
    IF self.utc THEN t
    ELSE IF IsDst(t) THEN t + DstOffset ELSE t + StdOffset

\* x is 00:00:00 of the day after the day of t, in the handler's time base
IsNextDayAnchor(self, t, x) == Wall(self, x) = (Wall(self, t) \div _MIDNIGHT + 1) * _MIDNIGHT

\* C1: for every unit, every multiplier m >= 1 and every instant t,
\* compute_rollover(t) is strictly greater than t, also when t is exactly
\* on the anchor time of day.
C1_RolloverAfterInput ==
    res.op = "compute_rollover" => res.out > res.at /\ h.rolloverAt > res.at

\* C1 witness: the policy applied to an instant on the anchor (midnight),
\* for a weekly unit.
C1_Witness ==
    /\ res.op = "compute_rollover"
    /\ IsWeekly(h.when)
    /\ Wall(h, res.at) % _MIDNIGHT = 0
    /\ gmtime(Wall(h, res.at) - 1).tm_wday = h.dayOfWeek
    /\ res.out > res.at

\* C9 as stated: for the daily unit as the logger configures it (when='d',
\* interval 1), past the anchor 00:00:00 compute_rollover returns the next
\* day's 00:00:00.
C9_Original ==
    (/\ res.op = "compute_rollover"
     /\ h.when = << "D" >>
     /\ args.interval = 1
     /\ Wall(h, res.at) % _MIDNIGHT > 0)
    => IsNextDayAnchor(h, res.at, res.out)

\* C9 amended: the next day's 00:00:00 is what the MIDNIGHT unit returns
\* (in UTC always, in local time when DST does not change within the next
\* 24 hours); the daily unit 'd' with interval 1 returns current + 86400 s,
\* the same time of day one day on.
C9_MidnightUnitAligns ==
    res.op = "compute_rollover" =>
        /\ (IsMidnight(h.when) /\ (h.utc \/ IsDst(res.at) = IsDst(res.at + _MIDNIGHT)))
              => IsNextDayAnchor(h, res.at, res.out)
        /\ (h.when = << "D" >> /\ args.interval = 1)
              => res.out = res.at + _MIDNIGHT

\* C9 witness: 14:15:00 local time on 2024-03-10, MIDNIGHT unit, gives
\* 00:00:00 local time on 2024-03-11.
C9_Witness ==
    /\ res.op = "compute_rollover"
    /\ IsMidnight(h.when)
    /\ ~h.utc
    /\ res.at = 19792 * _MIDNIGHT + 18 * 3600 + 15 * 60
    /\ res.out = 19793 * _MIDNIGHT + 4 * 3600

(***************************************************************************)
(* Properties of retention pruning (under SpecRet).                        *)
(***************************************************************************)
\* The last operation was an emit that performed a rollover
Rolled == res.op = "emit" /\ res.rolled

\* The files the last operation removed, opened
Removed == {res.io[i].name : i \in {j \in 1..Len(res.io) : res.io[j].ev = "remove"}}

Opened == {res.io[i].name : i \in {j \in 1..Len(res.io) : res.io[j].ev = "open"}}

\* f is <base name>.<suffix the unit's matcher accepts><postfix>
HasWriterForm(self, f) ==
    \E n \in 1..Len(f) :
        /\ f = self.origFileName \o << "." >> \o Slice(f, Len(self.origFileName) + 1,
                                                      Len(self.origFileName) + 1 + n)
                 \o self.postfix
        /\ match(self.extMatch, Slice(f, Len(self.origFileName) + 1,
                                      Len(self.origFileName) + 1 + n))

\* The files of this writer's form in a directory
Matching(self, files) == {f \in files : HasWriterForm(self, f)}

\* The files the last rollover found, of this writer's form, other than the
\* file it opened
PreExisting == Matching(res.prev, res.dirBefore) \ {h.baseFilename}

\* The k smallest names of a set, in Python's string order
Smallest(S, k) == {f \in S : Cardinality({g \in S : StrLess(g, f)}) < k}

\* C2 as stated: with retention count 3 and exactly 3 pre-existing matching
\* files plus the newly opened one, the rollover deletes exactly 1 file, the
\* oldest of the pre-existing ones.
C2_Original ==
    (/\ Rolled
     /\ h.backupCount = 3
     /\ h.baseFilename \notin res.dirBefore
     /\ Cardinality(PreExisting) = 3)
    => Removed = Smallest(PreExisting, 1)

\* C2 amended: with retention count 3 and exactly 3 pre-existing matching
\* files plus the newly opened one (4 in total) the rollover deletes no
\* file; it deletes exactly 1, the oldest, when 4 pre-exist (5 in total).
C2_KeepsCountPlusNew ==
    (/\ Rolled
     /\ h.backupCount = 3
     /\ h.baseFilename \notin res.dirBefore)
    => /\ Cardinality(PreExisting) = 3 =>
             Removed = {} /\ Cardinality(Matching(h, dir)) = 4
       /\ Cardinality(PreExisting) = 4 =>
             Removed = Smallest(PreExisting, 1) /\ Cardinality(Matching(h, dir)) = 4

\* C2 witness: a rollover with retention count 3 that found exactly 3
\* matching files and opened a new one.
C2_Witness ==
    /\ Rolled
    /\ h.backupCount = 3
    /\ h.baseFilename \notin res.dirBefore
    /\ Cardinality(PreExisting) = 3
    /\ Cardinality(Matching(h, dir)) = 4

\* The C3 scenario: unit Days, interval 1, retention count 2, started in a
\* directory without matching files, just after the third rollover
C3_Scenario ==
    /\ Rolled
    /\ h.when = << "D" >>
    /\ args.interval = 1
    /\ h.backupCount = 2
    /\ Matching(h, dir0) = {}
    /\ rollovers = 3

C4_Original ==
    Rolled =>
        LET c == Cardinality(PreExisting)
        IN  /\ Removed = IF c < h.backupCount THEN {}
                         ELSE Smallest(PreExisting, c - h.backupCount)
            /\ dir = (res.dirBefore \cup {h.baseFilename}) \ Removed

\* C4 amended: the same for a retention count of at least 1; with a
\* retention count of 0 pruning is off and the rollover deletes nothing.
C4_ExactCountPolicy ==
    Rolled =>
        LET c == Cardinality(PreExisting)
        IN  /\ Removed = IF h.backupCount = 0 \/ c < h.backupCount THEN {}
                         ELSE Smallest(PreExisting, c - h.backupCount)
            /\ dir = (res.dirBefore \cup {h.baseFilename}) \ Removed

\* C4 witness: a rollover that deleted two files and kept as many as the
\* retention count, which is positive.
C4_Witness ==
    /\ Rolled
    /\ h.backupCount >= 1
    /\ Cardinality(Removed) = 2
    /\ Cardinality(PreExisting \ Removed) = h.backupCount

ScheduledName(self, t) ==
    self.origFileName \o << "." >>
        \o strftime(self.suffix, IF self.utc THEN gmtime(t) ELSE localtime(t))
        \o self.postfix

C8_NamedFromDueInstant ==
    Rolled =>
        /\ h.baseFilename = ScheduledName(res.prev, res.prev.rolloverAt)
        /\ h.stream = h.baseFilename
        /\ Opened = {h.baseFilename}

\* C8 witness: a rollover triggered by an emit that came at least a whole
\* interval late, at a time whose own name would be another one.
C8_Witness ==
    /\ Rolled
    /\ res.at >= res.prev.rolloverAt + res.prev.interval
    /\ ScheduledName(h, res.at) # h.baseFilename
    /\ h.baseFilename = ScheduledName(h, res.prev.rolloverAt)

\* The unit tokens the constructor is documented to accept, upper-cased
AcceptedUnits == {Upper(w) : w \in ValidWhens}

\* C10: an unrecognised unit token, a weekly unit without exactly one
\* weekday digit, or a weekday outside 0..6 fails in the constructor, before
\* any file is opened or created and before a rollover instant exists; no
\* later operation fails for it.
C10_BadUnitFailsAtConstruction ==
    /\ (res.op = "init" /\ Upper(args.when) \notin AcceptedUnits) =>
          /\ res.error # ""
          /\ phase = "failed"
          /\ res.io = << >>
          /\ dir = res.dirBefore
          /\ h = NoHandler
    /\ (res.op = "init" /\ Upper(args.when) \in AcceptedUnits) =>
          res.error = "" /\ phase = "open"
    /\ phase = "open" => Upper(args.when) \in AcceptedUnits
    /\ res.op \in {"emit", "close"} => res.error = ""

\* C10 witness: construction with weekday 7 has failed, nothing touched.
C10_Witness ==
    /\ phase = "failed"
    /\ args.when = << "w", "7" >>
    /\ res.op = "init"
    /\ dir = dir0

(***************************************************************************)
(* Properties of the interval multiplier (under SpecInterval).             *)
(***************************************************************************)
\* C11 as stated: constructing a writer with an interval multiplier of 0 or
\* less fails with a configuration error at construction, and no writer has
\* an interval of 0 seconds or less.
C11_Original ==
    /\ (res.op = "init" /\ args.interval <= 0) => res.error # ""
    /\ phase \in {"open", "hung"} => h.interval > 0

\* What the code does with a multiplier of 0 for a unit that is not aligned:
\* the writer is constructed with an interval of 0 seconds, its first
\* rollover is due at once, and that rollover never ends.
C11_ZeroIntervalHangs ==
    /\ phase = "hung"
    /\ args.interval = 0
    /\ h.interval = 0
    /\ res.op = "emit"
    /\ res.at = res.prev.rolloverAt

(***************************************************************************)
(* Properties of the file-name codec (under SpecPolicy).                   *)
(***************************************************************************)
\* The suffix of the handler's current file, as calculate_filename made it
SuffixOf(self) ==
    Slice(self.baseFilename, Len(self.origFileName) + 1,
          Len(self.baseFilename) - Len(self.postfix))

\* s with c put in after its first i characters, and s without character i
InsertAt(s, i, c) == Slice(s, 0, i) \o << c >> \o Slice(s, i, Len(s))

DeleteAt(s, i) == Slice(s, 0, i - 1) \o Slice(s, i, Len(s))

\* The strings that differ from s in the width of one field: one digit
\* more (anywhere in or next to a field) or one digit less
WidthVariants(s) ==
    {InsertAt(s, i, c) : i \in 0..Len(s), c \in {"0", "1"}}
        \cup {DeleteAt(s, i) : i \in {j \in 1..Len(s) : s[j] \in Digits}}

\* The strings that differ from s in one separator character
SeparatorVariants(s) ==
    {[s EXCEPT ![i] = c] : i \in {j \in 1..Len(s) : s[j] \notin Digits},
                           c \in {"-", "_", ".", "T"}} \ {s}

\* C12: for every rollover unit and every instant, the suffix the formatter
\* produces is accepted by the unit's matcher, and every string that differs
\* from it in the width of a field or in a separator character is rejected.
C12_MatcherRoundTrip ==
    phase = "open" =>
        /\ match(h.extMatch, SuffixOf(h))
        /\ \A v \in WidthVariants(SuffixOf(h)) \cup SeparatorVariants(SuffixOf(h)) :
              ~match(h.extMatch, v)

\* C12 witness: a writer by the second whose current file's suffix has all
\* six fields and five separators, accepted by its matcher.
C12_Witness ==
    /\ phase = "open"
    /\ h.when = << "S" >>
    /\ Len(SuffixOf(h)) = 19
    /\ Cardinality(SeparatorVariants(SuffixOf(h))) = 15
    /\ match(h.extMatch, SuffixOf(h))

(***************************************************************************)
(* Properties of failures of the file system (under SpecFault).            *)
(***************************************************************************)
\* The files whose removal the last operation attempted in vain
FailedRemovals ==
    {res.io[i].name : i \in {j \in 1..Len(res.io) : res.io[j].ev = "remove_failed"}}

\* The files the last rollover selected for pruning: none when there are
\* fewer matching files than the retention count, else the oldest beyond it
SelectedForPruning ==
    IF res.prev.backupCount > 0 /\ Cardinality(PreExisting) >= res.prev.backupCount
    THEN Smallest(PreExisting, Cardinality(PreExisting) - res.prev.backupCount)
    ELSE {}

\* C13: if deleting one or more of the files selected for pruning fails, the
\* failure is swallowed per file: the other selected files are deleted, the
\* rollover completes with the new file open, the next rollover instant is
\* advanced, and no error reaches the caller of emit.
C13_PruneFailureSwallowed ==
    (Rolled /\ FailedRemovals # {}) =>
        /\ FailedRemovals = SelectedForPruning \cap faults.unremovable
        /\ Removed = SelectedForPruning \ faults.unremovable
        /\ Removed \cap dir = {}
        /\ FailedRemovals \subseteq dir
        /\ h.stream = h.baseFilename
        /\ h.baseFilename \in Opened
        /\ h.baseFilename \in dir
        /\ h.rolloverAt > res.prev.rolloverAt
        /\ res.error = ""
        /\ res.handled = ""
        /\ res.io[Len(res.io)] = Io("write", h.baseFilename)

\* C13 witness: a rollover that selected two files, failed to delete the
\* older one and deleted the other.
C13_Witness ==
    /\ Rolled
    /\ Cardinality(SelectedForPruning) = 2
    /\ \E f \in FailedRemovals : \E g \in Removed : StrLess(f, g)
    /\ h.rolloverAt > res.prev.rolloverAt

\* The last operation was an emit whose rollover could not open the file
\* that was due
OpenFailedInRollover ==
    /\ Rolled
    /\ \E i \in 1..Len(res.io) :
          res.io[i] = Io("open_failed", ScheduledName(res.prev, res.prev.rolloverAt))

\* The events of the last operation that wrote to a stream
Written == {res.io[i].name : i \in {j \in 1..Len(res.io) : res.io[j].ev = "write"}}

C20_Original ==
    (phase \in {"open", "computed"} /\ h.when \in {<< "S" >>, << "M" >>, << "H" >>, << "D" >>}) =>
        /\ h.interval = UnitTable(h.when).interval * args.interval
        /\ res.op = "compute_rollover" =>
              res.out = res.at + UnitTable(h.when).interval * args.interval

(***************************************************************************)
(* Properties of the Log class (under SpecLog).                            *)
(***************************************************************************)
\* The rotating file handlers with an open stream, as <<log, position>>
OpenFileHandlers ==
    {ij \in (1..Len(logs)) \X (1..2) :
        /\ ij[2] <= Len(logs[ij[1]].handlers)
        /\ logs[ij[1]].handlers[ij[2]].cls = "CustomTimedRotatingFileHandler"
        /\ logs[ij[1]].handlers[ij[2]].h.stream # None}

BasePath(ij) == logs[ij[1]].handlers[ij[2]].h.origFileName

\* The Logs made from a parent Log, and the parent of one
ChildrenOfLogs == {i \in 1..Len(logs) : logs[i].is_child /\ logs[i].log_parent.kind = "log"}

ParentOf(i) == logs[logs[i].log_parent.ref]

\* C15 as stated: after any sequence of Log constructions with file logging
\* enabled, the base paths of all open rotating file handlers are pairwise
\* distinct.
C15_Original ==
    \A x \in OpenFileHandlers : \A y \in OpenFileHandlers :
        x # y => BasePath(x) # BasePath(y)

\* C16 as stated: after close() of a non-child Log every handler that was
\* attached has been closed and removed: the log has no handlers left and
\* the file stream is released.
C16_Original ==
    \A i \in 1..Len(logs) :
        (logs[i].closed /\ ~logs[i].is_child) =>
            /\ logs[i].handlers = << >>
            /\ \A j \in 1..Len(logs[i].released) :
                  /\ logs[i].released[j].h.closed
                  /\ logs[i].released[j].h.stream = None

\* C17: a child Log constructed without an explicit level has the numeric
\* level of its parent Log, at any depth and for every level the parent can
\* hold; a child constructed with an explicit level string (WARN) has that
\* level (30).
C17_ChildLevel ==
    \A i \in ChildrenOfLogs :
        /\ logs[i].arg_level = None =>
              /\ logs[i].log_level_int = ParentOf(i).log_level_int
              /\ logs[i].level = ParentOf(i).level
        /\ logs[i].arg_level = StrWARN =>
              /\ logs[i].log_level_int = 30
              /\ logs[i].level = 30

\* C17 witness: a child of a child, both without an explicit level, under a
\* root Log constructed with 'ERROR', all three at level 40.
C17_Witness ==
    \E i \in ChildrenOfLogs :
        /\ logs[i].arg_level = None
        /\ ParentOf(i).is_child
        /\ ParentOf(i).arg_level = None
        /\ ParentOf(i).log_parent.kind = "log"
        /\ ~logs[ParentOf(i).log_parent.ref].is_child
        /\ logs[ParentOf(i).log_parent.ref].arg_level = StrERROR
        /\ logs[i].log_level_int = 40

\* C18 as stated: a child Log of a parent Log that logs to file also logs to
\* file and has the log_path of its parent, for every parent and child in a
\* chain.
C18_Original ==
    \A i \in ChildrenOfLogs :
        ParentOf(i).log_to_file =>
            /\ logs[i].log_to_file
            /\ logs[i].log_path = ParentOf(i).log_path

\* C18, the same for the children of children only, whose parents were
\* constructed without a log_dir of their own.
C18_Grandchild ==
    \A i \in ChildrenOfLogs :
        (ParentOf(i).log_to_file /\ ParentOf(i).is_child) =>
            logs[i].log_path = ParentOf(i).log_path

\* C19 as stated: a root Log constructed with log_to_file has exactly 2
\* handlers, a console handler and a rotating file handler; a child Log made
\* from it has no handlers of its own.
C19_Original ==
    \A i \in 1..Len(logs) :
        /\ (~logs[i].is_child /\ logs[i].log_to_file /\ ~logs[i].closed) =>
              /\ Len(logs[i].handlers) = 2
              /\ logs[i].handlers[1].cls = "StreamHandler"
              /\ logs[i].handlers[2].cls = "CustomTimedRotatingFileHandler"
        /\ (i \in ChildrenOfLogs /\ ~ParentOf(i).is_child /\ ParentOf(i).log_to_file) =>
              logs[i].handlers = << >>

(***************************************************************************)
(* Properties of rescheduling (under SpecInterval, Spec, SpecPolicy).      *)
(***************************************************************************)
\* The last operation was an emit whose rollover ran to its end or into
\* its loop (no exception left doRollover)
RolloverRan == Rolled /\ res.handled = ""

\* C21: across every rollover the next rollover instant strictly increases:
\* what doRollover stores, after the catch-up loop and the DST correction, is
\* greater than the instant just rolled, and the catch-up loop terminates.
C21_Original ==
    RolloverRan => /\ phase # "hung"
                   /\ h.rolloverAt > res.prev.rolloverAt

\* C21 for the multipliers the constructor is meant to accept (m >= 1)
C21_PositiveMultiplier ==
    (RolloverRan /\ args.interval >= 1) => /\ phase # "hung"
                                           /\ h.rolloverAt > res.prev.rolloverAt

(***************************************************************************)
(* Properties of the weekly unit (under SpecPolicy).                       *)
(***************************************************************************)
\* The policy was applied, for the weekly unit with target weekday w, to an
\* instant whose day in the handler's time base has weekday d (0 is Monday)
WeeklyOn(w, d) ==
    /\ res.op = "compute_rollover"
    /\ IsWeekly(h.when)
    /\ h.dayOfWeek = w
    /\ gmtime(Wall(h, res.at)).tm_wday = d

\* The whole days between the 00:00:00 that ends the day of the input (where
\* the day-alignment step lands) and the result, in the handler's time base
DaysAdded == Wall(h, res.out) \div _MIDNIGHT - (Wall(h, res.at) \div _MIDNIGHT + 1)

\* The result is on 00:00:00 in the handler's time base
OnMidnight == Wall(h, res.out) % _MIDNIGHT = 0

\* compute_rollover(t) of the handler with the anchor it was given kept
WithAnchor == compute_rollover([h EXCEPT !.atTime = args.at_time], res.at)

\* The whole days between the 00:00:00 that ends the day of the input and
\* the instant x, x on 00:00:00 of a day of weekday w (handler's time base)
DaysTo(x, w) ==
    IF Wall(h, x) % _MIDNIGHT = 0 /\ gmtime(Wall(h, x)).tm_wday = w
    THEN Wall(h, x) \div _MIDNIGHT - (Wall(h, res.at) \div _MIDNIGHT + 1)
    ELSE NoInt

\* The policy's input is past the default anchor 00:00:00 of its day
PastMidnight == args.at_time = AtMidnight /\ Wall(h, res.at) % _MIDNIGHT > 0

\* C22: target weekday Sunday (6), computed on a Wednesday (2): the whole
\* days added after the day-alignment step are 6 - 2 - 1 = 3.
C22_Original == WeeklyOn(6, 2) => DaysAdded = 3

\* C22, what the handler computes: 6 - 2 = 4 days, to the 00:00:00 that ends
\* Sunday; the anchor it was given is not the one it uses.
C22_FourDays ==
    WeeklyOn(6, 2) => /\ DaysAdded = 4
                      /\ OnMidnight
                      /\ gmtime(Wall(h, res.out) - 1).tm_wday = 6
                      /\ h.atTime = None

\* C22 with the anchor kept: 3 days, to Sunday 00:00:00
C22_AnchorKept == (WeeklyOn(6, 2) /\ PastMidnight) => DaysTo(WithAnchor, 6) = 3

\* C23: target weekday Thursday (3), computed on a Saturday (5): the whole
\* days added after the day-alignment step are 6 - 5 + 3 = 4 (the
\* wrap-to-next-week branch).
C23_Original == WeeklyOn(3, 5) => DaysAdded = 4

\* C23, what the handler computes: 6 - 5 + 3 + 1 = 5 days, to the 00:00:00
\* that ends Thursday.
C23_FiveDays ==
    WeeklyOn(3, 5) => /\ DaysAdded = 5
                      /\ OnMidnight
                      /\ gmtime(Wall(h, res.out) - 1).tm_wday = 3
                      /\ h.atTime = None

\* C23 with the anchor kept: 4 days, to Thursday 00:00:00
C23_AnchorKept == (WeeklyOn(3, 5) /\ PastMidnight) => DaysTo(WithAnchor, 3) = 4

(***************************************************************************)
(* Properties of the order of file names (under SpecNames).                *)
(***************************************************************************)
\* The formatter was applied to two instants, the first the earlier
Named == res.op = "calculate_filename"

NameOfEarlier == res.io[1].name

NameOfLater == res.io[2].name

\* C24: lexicographic order of file names equals chronological order of the
\* instants they encode: for instants t1 < t2 whose names differ, name(t1)
\* sorts before name(t2), for every unit, in UTC and in local-time mode.
C24_Original ==
    (Named /\ NameOfEarlier # NameOfLater) => StrLess(NameOfEarlier, NameOfLater)

\* C24 in UTC mode, and in local time away from the end of DST
C24_UtcOrder ==
    (/\ Named
     /\ NameOfEarlier # NameOfLater
     /\ h.utc \/ res.at >= DstEnd \/ res.out < DstEnd)
    => StrLess(NameOfEarlier, NameOfLater)

(***************************************************************************)
(* Properties of the DST correction of a rollover (under Spec).            *)
(***************************************************************************)
\* The last operation was a rollover of an aligned unit in local time, and
\* DST changed between the instant rolled and the instant stored
RolledAcrossDst ==
    /\ RolloverRan
    /\ IsMidnight(h.when) \/ IsWeekly(h.when)
    /\ ~h.utc
    /\ IsDst(res.prev.rolloverAt) # IsDst(h.rolloverAt)

\* The part of a day by which the stored instant is off whole days from the
\* instant rolled
ShiftOfDay == (h.rolloverAt - res.prev.rolloverAt) % _MIDNIGHT

\* C25: for MIDNIGHT and weekly units in local time, when one DST change
\* lies between the instant rolled and the next rollover, the stored instant
\* is shifted by exactly 3600 s in total (-3600 when DST begins, +3600 when
\* it ends), so the rollover keeps its wall-clock time of day.
C25_Original ==
    RolledAcrossDst =>
        /\ ShiftOfDay = IF IsDst(h.rolloverAt) THEN _MIDNIGHT - 3600 ELSE 3600
        /\ Wall(h, h.rolloverAt) % _MIDNIGHT = Wall(h, res.prev.rolloverAt) % _MIDNIGHT

\* C25 for the MIDNIGHT unit alone
C25_MidnightUnit ==
    (RolledAcrossDst /\ IsMidnight(h.when)) =>
        /\ ShiftOfDay = IF IsDst(h.rolloverAt) THEN _MIDNIGHT - 3600 ELSE 3600
        /\ Wall(h, h.rolloverAt) % _MIDNIGHT = Wall(h, res.prev.rolloverAt) % _MIDNIGHT

\* The weekly unit: the shift is two hours
C25_WeeklyTwoHours ==
    /\ RolledAcrossDst
    /\ IsWeekly(h.when)
    /\ ShiftOfDay \in {_MIDNIGHT - 7200, 7200}

(***************************************************************************)
(* Properties of the file a rollover opens (under Spec).                   *)
(***************************************************************************)
\* C26: every rollover changes the file being written: the path doRollover
\* opens differs from the path that was open before it, also on local-time
\* days of 23 or 25 hours.
C26_Original == RolloverRan => h.baseFilename # res.prev.baseFilename

\* C26 in UTC mode
C26_Utc == (RolloverRan /\ h.utc) => h.baseFilename # res.prev.baseFilename

(***************************************************************************)
(* Properties of emits after an idle spell (under SpecLag).                *)
(***************************************************************************)
\* The first rollover instant of the writer, set at construction
FirstDue == Namer(args, StartSpring).rolloverAt

\* The whole intervals elapsed since the first rollover instant
Elapsed == (now - FirstDue) \div h.interval

\* The last operation was an emit written without a rollover, at the
\* instant now, after the idle spell
Settled == res.op = "emit" /\ ~res.rolled /\ ticks = 1 /\ res.at = now

\* C27 as stated: each emit performs at most one rollover, from the instant
\* that was due; when k >= 2 whole intervals have elapsed since the rollover
\* instant, exactly k consecutive emits trigger a rollover before an emit is
\* written without one.
C27_Original ==
    (Settled /\ now >= FirstDue /\ Elapsed >= 2) => rollovers = Elapsed

\* C27 amended: each emit performs at most one rollover, which advances the
\* rollover instant by one interval from the instant that was due and opens
\* the file named from that instant; when k whole intervals have elapsed
\* since the rollover instant, the instant is still <= now after each of the
\* first k rollovers, and exactly k + 1 consecutive emits trigger a rollover
\* before an emit is written without one.
C27_OneRolloverPerEmit ==
    /\ Rolled =>
          /\ Cardinality({i \in 1..Len(res.io) : res.io[i].ev = "open"}) = 1
          /\ h.rolloverAt = res.prev.rolloverAt + h.interval
          /\ h.baseFilename = calculate_filename(h, res.prev.rolloverAt)
          /\ rollovers <= Elapsed => h.rolloverAt <= now
    /\ Settled => rollovers = IF now >= FirstDue THEN Elapsed + 1 ELSE 0

\* C27 witness: two whole intervals elapsed, and the fourth emit is the
\* first without a rollover.
C27_Witness ==
    /\ Settled
    /\ now >= FirstDue
    /\ Elapsed = 2
    /\ rollovers = 3
    /\ h.rolloverAt = FirstDue + 3 * h.interval

(***************************************************************************)
(* Properties of a rollover retried after a failed open (under SpecFault). *)
(***************************************************************************)
\* The handler as a rollover leaves it when the open of the new file
\* failed: no stream, the base file name that of the rollover still due
AfterFailedOpen(self) ==
    /\ self.stream = None
    /\ self.baseFilename = ScheduledName(self, self.rolloverAt)

\* The names the last operation opened or failed to open
Attempted ==
    {res.io[i].name : i \in {j \in 1..Len(res.io) : res.io[j].ev \in {"open", "open_failed"}}}

\* The last operation was an emit on a handler left by a failed open
Retried == res.op = "emit" /\ AfterFailedOpen(res.prev)

\* C28: if opening the new file fails inside doRollover, the writer is left
\* with no open stream, its base file name set to the new path, its rollover
\* instant unchanged and no file pruned; the next emit finds the rollover
\* still due and retries it with the same file name.
C28_RetrySameFile ==
    /\ OpenFailedInRollover =>
          /\ AfterFailedOpen(h)
          /\ h.rolloverAt = res.prev.rolloverAt
          /\ Removed = {}
          /\ FailedRemovals = {}
          /\ dir = res.dirBefore
    /\ Retried =>
          /\ res.rolled
          /\ Attempted = {res.prev.baseFilename}
          /\ h.baseFilename = res.prev.baseFilename

\* C28 witness: the emit after a failed open, the writer not closed in
\* between, rolls over to the same file, opens it, prunes and writes to it.
C28_Witness ==
    /\ Retried
    /\ ~res.prev.closed
    /\ Opened = {res.prev.baseFilename}
    /\ Written = {res.prev.baseFilename}
    /\ Removed # {}
    /\ h.rolloverAt > res.prev.rolloverAt

(***************************************************************************)
(* Properties of the weekly unit in UTC (under SpecPolicy).                *)
(***************************************************************************)
\* The second of the day of the anchor the handler was constructed with
AnchorSecond == (args.at_time[1] * 60 + args.at_time[2]) * 60 + args.at_time[3]

\* The policy was applied for a weekly unit in UTC mode
WeeklyUtc == res.op = "compute_rollover" /\ IsWeekly(h.when) /\ h.utc

\* C29: in UTC mode, for a weekly unit with target weekday w and any instant
\* t, compute_rollover(t) is an instant whose weekday is w and whose time of
\* day is the anchor's, more than 0 and at most 7 days after t.
C29_Original ==
    WeeklyUtc =>
        /\ gmtime(res.out).tm_wday = h.dayOfWeek
        /\ res.out % _MIDNIGHT = AnchorSecond
        /\ res.out > res.at
        /\ res.out - res.at <= 7 * _MIDNIGHT

\* What the handler computes instead, whatever anchor it was given: the
\* 00:00:00 that ends a day of weekday w, more than 0 and at most 7 days on
C29_EndOfTargetDay ==
    WeeklyUtc =>
        /\ gmtime(res.out - 1).tm_wday = h.dayOfWeek
        /\ res.out % _MIDNIGHT = 0
        /\ h.atTime = None
        /\ res.out > res.at
        /\ res.out - res.at <= 7 * _MIDNIGHT

\* With the anchor the handler was given kept, the policy gives an instant
\* of weekday w at the anchor's time of day (at most 7 days on)
C29_AnchorKept ==
    WeeklyUtc =>
        LET Kept(out) ==
                /\ gmtime(out).tm_wday = h.dayOfWeek
                /\ out % _MIDNIGHT = AnchorSecond
                /\ out >= res.at
                /\ out - res.at <= 7 * _MIDNIGHT
        IN  Kept(compute_rollover([h EXCEPT !.atTime = args.at_time], res.at))

=============================================================================
